---- MODULE Spec2Model ----
(***************************************************************************)
(* A model of the two programs of the repository:                          *)
(*   - src/odoo_api_demo.py: class OdooAPI, the XML-RPC / JSON-RPC client  *)
(*     of Odoo's crm.lead model (authenticate, execute, CRUD, search,      *)
(*     batch helpers);                                                      *)
(*   - src/chatbot.py: the Streamlit lead-capture assistant.               *)
(* Python values are tagged records ([t |-> "none"], [t |-> "int", ...]),  *)
(* so that None, False and 0 stay different values, as they are in Python. *)
(* Every network call's reply is chosen by the environment.                *)
(***************************************************************************)
EXTENDS Integers, Sequences, FiniteSets, TLC

VARIABLES
    uid, xmlrpc_common, xmlrpc_models, session_id,  \* OdooAPI's fields
    pc,        \* "idle" | "batch" | "done": where the caller of OdooAPI is
    op,        \* the OdooAPI operation running or just returned
    sent,      \* the network requests that operation has sent, in order
    calls,     \* the single-record invocations a batch has made, in order
    items,     \* the batch's input collection, in iteration order
    acc,       \* the batch's accumulator (lead_ids / results)
    messages, lead_info,   \* st.session_state of the chatbot
    cpc,       \* where the chatbot's script run is
    turn,      \* what the current script run has done
    creates,   \* lead-creation requests sent by the chatbot so far
    granted,   \* the user id the client holds from a successful authenticate
               \* (a set: empty when self.uid did not come from one)
    demo       \* the demo program: where demo_usage is, and how the run ended

apiVars == <<uid, xmlrpc_common, xmlrpc_models, session_id, pc, op, sent,
             calls, items, acc>>
chatVars == <<messages, lead_info, cpc, turn, creates>>
vars == <<uid, xmlrpc_common, xmlrpc_models, session_id, pc, op, sent,
          calls, items, acc, messages, lead_info, cpc, turn, creates,
          granted, demo>>

---------------------------------------------------------------------------
(* Bounds of the model. *)

MaxBatch == 2      \* longest batch input
MaxLeadId == 2     \* lead identifiers are 1..MaxLeadId
MaxUid == 1        \* user ids a successful authenticate can return
MaxTurns == 2      \* user turns in one chat session
MaxText == 3       \* longest extraction response, in tokens

---------------------------------------------------------------------------
(* Python values. *)

None == [t |-> "none"]
PyBool(b) == [t |-> "bool", v |-> IF b THEN 1 ELSE 0]
PyTrue == PyBool(TRUE)
PyFalse == PyBool(FALSE)
PyInt(n) == [t |-> "int", v |-> n]
PyStr(s) == [t |-> "str", s |-> s]
PyList(s) == [t |-> "list", items |-> s]
PyDict(f) == [t |-> "dict", d |-> f]
Proxy(service) == [t |-> "proxy", service |-> service]

\* Python's truth value testing (bool(x)), as `if x:` and `not x` apply it.
Truthy(x) ==
    CASE x.t = "none" -> FALSE
      [] x.t = "bool" -> x.v /= 0
      [] x.t = "int" -> x.v /= 0
      [] x.t = "str" -> x.s /= ""
      [] x.t = "list" -> Len(x.items) > 0
      [] x.t = "dict" -> DOMAIN x.d /= {}
      [] OTHER -> TRUE

IsBool(x) == x.t = "bool"

\* An exception on its way up the call stack, in the place of a return value.
Exc == [t |-> "exception"]

\* (a variant without the except clause: the exception goes on to the caller)
catch_reraise(r, sentinel) == r

\* `try: ... except Exception as e: log; return sentinel`, around a body that
\* ended as r.
catch(r, sentinel) == IF r.ret = Exc THEN [c |-> r.c, ret |-> sentinel] ELSE r

---------------------------------------------------------------------------
(* The environment: what a network call can come back with. *)

LeadIds == 1..MaxLeadId
LeadData == {"d1", "d2"}          \* lead_data dictionaries, opaque to the client

\* What the remote authenticate / login can return: a user id, or False.
AuthValues == {PyInt(u) : u \in 1..MaxUid} \cup {PyFalse}

\* What the remote execute_kw can return for a method.
RemoteValues(method) ==
    CASE method = "create" -> {PyInt(n) : n \in LeadIds} \cup {PyFalse}
      [] method \in {"write", "unlink"} -> {PyTrue, PyFalse}
      [] method = "read" -> {PyList(<<>>), PyList(<<PyStr("rec1")>>),
                             PyList(<<PyStr("rec2"), PyStr("rec1")>>)}
      [] OTHER -> {PyList(<<>>), PyList(<<PyInt(1)>>)}

\* An XML-RPC call returns a value or raises (Fault, ProtocolError, OSError).
XmlReplies(values) ==
    {[k |-> "raise"]} \cup {[k |-> "return", v |-> v] : v \in values}

\* A requests.post call raises, or returns a response with a status code, a
\* JSON body (its keys, and the value under 'result') and a cookie jar.
HttpReplies(values, cookies) ==
    {[k |-> "raise"]}
    \cup {[k |-> "http", status |-> 500, keys |-> {"result"}, result |-> PyTrue,
            cookie |-> None]}
    \cup {[k |-> "http", status |-> 200, keys |-> ks, result |-> None, cookie |-> None] :
            ks \in {{}, {"error"}}}
    \cup {[k |-> "http", status |-> 200, keys |-> {"result"}, result |-> v, cookie |-> ck] :
            v \in values, ck \in cookies}

NoReply == [k |-> "unused"]

AuthReplies(tr) ==
    IF tr = "xmlrpc" THEN XmlReplies(AuthValues)
    ELSE HttpReplies(AuthValues, {None, PyStr("sid")})

ExecReplies(tr, method) ==
    IF tr = "xmlrpc" THEN XmlReplies(RemoteValues(method))
    ELSE HttpReplies(RemoteValues(method) \cup {None}, {None})

\* One entry of the request log.
AuthReq(tr, reply) ==
    [kind |-> IF tr = "xmlrpc" THEN "authenticate" ELSE "login", tr |-> tr,
     uid |-> None, model |-> "", method |-> "", args |-> <<>>, reply |-> reply]
ExecReq(tr, u, model, method, args, reply) ==
    [kind |-> "execute_kw", tr |-> tr, uid |-> u, model |-> model,
     method |-> method, args |-> args, reply |-> reply]

---------------------------------------------------------------------------
(* OdooAPI.  c is the client: its fields plus the log of requests sent.    *)
(* Each method is an operator from the client and the replies of the       *)
(* network calls it makes to the client afterwards and the value returned. *)

Client == [uid |-> uid, xmlrpc_common |-> xmlrpc_common,
           xmlrpc_models |-> xmlrpc_models, session_id |-> session_id,
           sent |-> sent]

\* __init__
NewClient == [uid |-> None, xmlrpc_common |-> None, xmlrpc_models |-> None,
              session_id |-> None, sent |-> <<>>]

xmlrpc_authenticate(c, ar) ==
    LET c1 == [c EXCEPT !.xmlrpc_common = Proxy("common"),
                        !.sent = Append(@, AuthReq("xmlrpc", ar))]
    IN  catch(IF ar.k = "raise" THEN [c |-> c1, ret |-> Exc]
              ELSE LET c2 == [c1 EXCEPT !.uid = ar.v]
                   IN  IF Truthy(c2.uid)
                       THEN [c |-> [c2 EXCEPT !.xmlrpc_models = Proxy("object")],
                             ret |-> PyTrue]
                       ELSE [c |-> c2, ret |-> PyFalse],
              PyFalse)

jsonrpc_authenticate(c, ar) ==
    LET c1 == [c EXCEPT !.sent = Append(@, AuthReq("jsonrpc", ar))]
    IN  catch(IF ar.k = "raise" THEN [c |-> c1, ret |-> Exc]
              ELSE IF ar.status = 200
                   THEN IF "result" \in ar.keys /\ Truthy(ar.result)
                        THEN [c |-> [c1 EXCEPT !.uid = ar.result,
                                               !.session_id = ar.cookie],
                              ret |-> PyTrue]
                        ELSE [c |-> c1, ret |-> PyFalse]
                   ELSE [c |-> c1, ret |-> PyFalse],
              PyFalse)

\* (a variant that never authenticates implicitly)
NeedsAuth_never(c, tr) == FALSE

\* (a variant whose XML-RPC test looks at the proxy only)
NeedsAuth_proxy_only(c, tr) ==
    IF tr = "xmlrpc" THEN ~Truthy(c.xmlrpc_models) ELSE ~Truthy(c.uid)

\* Whether execute authenticates first (lines 153 and 179).
NeedsAuth(c, tr) ==
    IF tr = "xmlrpc" THEN ~Truthy(c.uid) \/ ~Truthy(c.xmlrpc_models)
    ELSE ~Truthy(c.uid)

xmlrpc_execute(c, model, method, args, ar, er) ==
    LET a == IF NeedsAuth(c, "xmlrpc") THEN xmlrpc_authenticate(c, ar)
             ELSE [c |-> c, ret |-> PyTrue]
    IN  catch(IF a.ret = Exc THEN a
              ELSE IF ~Truthy(a.ret) THEN [c |-> a.c, ret |-> None]
              ELSE LET c1 == [a.c EXCEPT !.sent =
                                Append(@, ExecReq("xmlrpc", a.c.uid, model, method, args, er))]
                   IN  IF er.k = "raise" THEN [c |-> c1, ret |-> Exc]
                       ELSE [c |-> c1, ret |-> er.v],
              None)

\* (a variant that returns the response body instead of its 'result')
jsonrpc_response_envelope(er) ==
    IF er.k = "raise" THEN Exc
    ELSE IF er.status = 200 THEN PyDict([key \in er.keys |-> er.result])
    ELSE None

\* Lines 205-214: what jsonrpc_execute makes of the response to its request.
jsonrpc_response(er) ==
    IF er.k = "raise" THEN Exc              \* requests.post or response.json() raised
    ELSE IF er.status = 200
         THEN IF "result" \in er.keys THEN er.result
              ELSE None                     \* 'error': logged; neither key: falls through
         ELSE None

jsonrpc_execute(c, model, method, args, ar, er) ==
    LET a == IF NeedsAuth(c, "jsonrpc") THEN jsonrpc_authenticate(c, ar)
             ELSE [c |-> c, ret |-> PyTrue]
    IN  catch(IF a.ret = Exc THEN a
              ELSE IF ~Truthy(a.ret) THEN [c |-> a.c, ret |-> None]
              ELSE [c |-> [a.c EXCEPT !.sent =
                             Append(@, ExecReq("jsonrpc", a.c.uid, model, method, args, er))],
                    ret |-> jsonrpc_response(er)],
              None)

execute(tr, c, model, method, args, ar, er) ==
    IF tr = "xmlrpc" THEN xmlrpc_execute(c, model, method, args, ar, er)
    ELSE jsonrpc_execute(c, model, method, args, ar, er)

\* create_lead_xmlrpc / create_lead_jsonrpc: the value of execute, as it is.
create_lead(tr, c, lead_data, ar, er) ==
    catch(execute(tr, c, "crm.lead", "create", <<PyList(<<PyStr(lead_data)>>)>>, ar, er),
          None)

\* update_lead_xmlrpc / update_lead_jsonrpc: `return result`.
update_lead(tr, c, lead_id, lead_data, ar, er) ==
    catch(execute(tr, c, "crm.lead", "write",
                  <<PyList(<<PyInt(lead_id)>>), PyStr(lead_data)>>, ar, er),
          PyFalse)

\* delete_lead_xmlrpc / delete_lead_jsonrpc: `return result`.
delete_lead(tr, c, lead_id, ar, er) ==
    catch(execute(tr, c, "crm.lead", "unlink", <<PyList(<<PyInt(lead_id)>>)>>, ar, er),
          PyFalse)

\* (a variant that returns the whole result list)
read_first_whole(lead_data) == lead_data

\* Lines 278-283: `if lead_data and len(lead_data) > 0: return lead_data[0]`,
\* else None.  len() of an unsized value and [0] of a dict raise.
read_first(lead_data) ==
    IF ~Truthy(lead_data) THEN None
    ELSE IF lead_data.t = "list" THEN lead_data.items[1]
    ELSE Exc

\* read_lead_xmlrpc / read_lead_jsonrpc; fields=None becomes [].
read_lead(tr, c, lead_id, fields, ar, er) ==
    LET fs == IF fields = None THEN PyList(<<>>) ELSE fields
        r == execute(tr, c, "crm.lead", "read",
                     <<PyList(<<PyInt(lead_id)>>), PyDict([k \in {"fields"} |-> fs])>>,
                     ar, er)
    IN  catch(IF r.ret = Exc THEN r ELSE [c |-> r.c, ret |-> read_first(r.ret)], None)

\* (a variant that tries a second time when the first attempt fails)
authenticate_retry(tr, c, ar) ==
    LET once(c0) == IF tr = "xmlrpc" THEN xmlrpc_authenticate(c0, ar)
                    ELSE jsonrpc_authenticate(c0, ar)
        r == once(c)
    IN  IF Truthy(r.ret) THEN r ELSE once(r.c)

authenticate(tr, c, ar) ==
    IF tr = "xmlrpc" THEN xmlrpc_authenticate(c, ar) ELSE jsonrpc_authenticate(c, ar)

\* (a variant that sends every option, null-valued when left at its default)
search_kwargs_all(withFields, fields, offset, limit, order) ==
    PyDict([k \in (IF withFields THEN {"fields"} ELSE {}) \cup {"offset", "limit", "order"} |->
              CASE k = "fields" -> fields
                [] k = "offset" -> offset
                [] k = "limit" -> limit
                [] OTHER -> order])

\* The options mapping of search_leads_* (withFields = FALSE) and of
\* search_read_leads_* (withFields = TRUE): `if offset:`, `if limit:`,
\* `if order:` test the argument's truth value; search_read replaces
\* fields=None by [] and always puts it in.
search_kwargs(withFields, fields, offset, limit, order) ==
    LET fs == IF fields = None THEN PyList(<<>>) ELSE fields
        keys == (IF withFields THEN {"fields"} ELSE {})
                \cup (IF Truthy(offset) THEN {"offset"} ELSE {})
                \cup (IF Truthy(limit) THEN {"limit"} ELSE {})
                \cup (IF Truthy(order) THEN {"order"} ELSE {})
    IN  PyDict([k \in keys |-> CASE k = "fields" -> fs
                                 [] k = "offset" -> offset
                                 [] k = "limit" -> limit
                                 [] OTHER -> order])

\* len(x) raises TypeError unless x is sized.
HasLen(x) == x.t \in {"list", "dict", "str"}

\* search_leads_* / search_read_leads_*: execute, then len() of the result
\* inside the try; any exception returns [].
search_leads(tr, c, withFields, domain, fields, offset, limit, order, ar, er) ==
    LET method == IF withFields THEN "search_read" ELSE "search"
        r == execute(tr, c, "crm.lead", method,
                     <<domain, search_kwargs(withFields, fields, offset, limit, order)>>,
                     ar, er)
    IN  catch(IF r.ret = Exc \/ HasLen(r.ret) THEN r ELSE [c |-> r.c, ret |-> Exc],
              PyList(<<>>))

\* The batch loops' accumulation.
\* (a variant that appends whatever the single create returned)
create_accumulate_unchecked(lead_ids, lead_id) ==
    PyList(Append(lead_ids.items, lead_id))

\* create_leads_batch_*: `if lead_id: lead_ids.append(lead_id)`.
create_accumulate(lead_ids, lead_id) ==
    IF Truthy(lead_id) THEN PyList(Append(lead_ids.items, lead_id)) ELSE lead_ids

\* (a variant that rebinds results instead of assigning into it)
results_assign_rebind(results, lead_id, success) ==
    PyDict([k \in {lead_id} |-> success])

\* update_leads_batch_* / delete_leads_batch_*: `results[lead_id] = success`.
results_assign(results, lead_id, success) ==
    PyDict([k \in DOMAIN results.d \cup {lead_id} |->
              IF k = lead_id THEN success ELSE results.d[k]])

\* The item a batch loop handles next, given the invocations made so far:
\* a `for` over the input, one invocation per item, no early exit.
next_item(its, done) == Len(done) + 1

\* (a variant that leaves the loop at the first failed item)
loop_finished_failfast(its, done) ==
    Len(done) >= Len(its) \/ \E i \in DOMAIN done : ~Truthy(done[i].ret)

loop_finished(its, done) == Len(done) >= Len(its)

---------------------------------------------------------------------------
(* The callers of OdooAPI: one action per public method.  A reply is drawn *)
(* only for a network call the method goes on to make.                     *)

Transports == {"xmlrpc", "jsonrpc"}

SeqsUpTo(S, n) == UNION {[1..k -> S] : k \in 0..n}

Injective(s) == \A i, j \in DOMAIN s : i /= j => s[i] /= s[j]

AuthPasses(tr, c, ar) ==
    ~NeedsAuth(c, tr) \/ Truthy(authenticate(tr, c, ar).ret)

\* The replies the environment gives to one execute: <<auth reply, exec reply>>.
Outcomes(tr, c, method) ==
    UNION {{<<ar, er>> : er \in IF AuthPasses(tr, c, ar)
                                THEN ExecReplies(tr, method) ELSE {NoReply}} :
           ar \in IF NeedsAuth(c, tr) THEN AuthReplies(tr) ELSE {NoReply}}

Fresh == [Client EXCEPT !.sent = <<>>]

Pre == [uid |-> uid, xmlrpc_models |-> xmlrpc_models, session_id |-> session_id]

\* The user id an authenticate request's reply gave the client, if it did.
GrantedBy(q) ==
    IF q.kind \notin {"authenticate", "login"} THEN {}
    ELSE IF q.reply.k = "return" /\ Truthy(q.reply.v) THEN {q.reply.v}
    ELSE IF q.reply.k = "http" /\ q.reply.status = 200 /\ "result" \in q.reply.keys
            /\ Truthy(q.reply.result) THEN {q.reply.result}
    ELSE {}

SetClient(c) ==
    /\ granted' = {u \in granted \cup UNION {GrantedBy(c.sent[i]) : i \in DOMAIN c.sent} :
                      u = c.uid}
    /\ uid' = c.uid
    /\ xmlrpc_common' = c.xmlrpc_common
    /\ xmlrpc_models' = c.xmlrpc_models
    /\ session_id' = c.session_id
    /\ sent' = c.sent

Finish(name, tr, arg, r) ==
    /\ SetClient(r.c)
    /\ op' = [name |-> name, tr |-> tr, arg |-> arg, ret |-> r.ret, pre |-> Pre]
    /\ pc' = "done"
    /\ UNCHANGED <<calls, items, acc>>
    /\ UNCHANGED chatVars
    /\ UNCHANGED demo

Authenticate ==
    /\ pc = "idle"
    /\ \E tr \in Transports : \E ar \in AuthReplies(tr) :
          Finish("authenticate", tr, None, authenticate(tr, Fresh, ar))

Execute ==
    /\ pc = "idle"
    /\ \E tr \in Transports, method \in {"create", "unlink"} :
       \E o \in Outcomes(tr, Fresh, method) :
          Finish("execute", tr, PyStr(method),
                 execute(tr, Fresh, "crm.lead", method,
                         <<PyList(<<PyInt(1)>>)>>, o[1], o[2]))

CreateLead ==
    /\ pc = "idle"
    /\ \E tr \in Transports, d \in LeadData :
       \E o \in Outcomes(tr, Fresh, "create") :
          Finish("create_lead", tr, PyStr(d), create_lead(tr, Fresh, d, o[1], o[2]))

UpdateLead ==
    /\ pc = "idle"
    /\ \E tr \in Transports, id \in LeadIds :
       \E o \in Outcomes(tr, Fresh, "write") :
          Finish("update_lead", tr, PyInt(id),
                 update_lead(tr, Fresh, id, "d1", o[1], o[2]))

DeleteLead ==
    /\ pc = "idle"
    /\ \E tr \in Transports, id \in LeadIds :
       \E o \in Outcomes(tr, Fresh, "unlink") :
          Finish("delete_lead", tr, PyInt(id),
                 delete_lead(tr, Fresh, id, o[1], o[2]))

\* The argument values a caller of search or read passes.
Offsets == {PyInt(0), PyInt(2)}                       \* default 0
Limits == {None, PyInt(0), PyInt(5)}                  \* default None
Orders == {None, PyStr(""), PyStr("id desc")}         \* default None
FieldsArgs == {None, PyList(<<>>), PyList(<<PyStr("name")>>)}   \* default None
Domain == PyList(<<PyStr("domain")>>)                 \* opaque to the client

ReadLead ==
    /\ pc = "idle"
    /\ \E tr \in Transports, id \in LeadIds, fields \in FieldsArgs :
       \E o \in Outcomes(tr, Fresh, "read") :
          Finish("read_lead", tr, PyInt(id),
                 read_lead(tr, Fresh, id, fields, o[1], o[2]))

\* The caller takes the returned value; the next call starts a new log.
Return ==
    /\ pc = "done"
    /\ pc' = "idle"
    /\ op' = [name |-> "none"]
    /\ sent' = <<>>
    /\ calls' = <<>>
    /\ items' = <<>>
    /\ acc' = None
    /\ UNCHANGED <<uid, xmlrpc_common, xmlrpc_models, session_id, granted>>
    /\ UNCHANGED chatVars
    /\ UNCHANGED demo

SearchLeads ==
    /\ pc = "idle"
    /\ \E tr \in Transports, withFields \in BOOLEAN,
          offset \in Offsets, limit \in Limits, order \in Orders :
       \E fields \in IF withFields THEN FieldsArgs ELSE {None} :
       \E o \in Outcomes(tr, Fresh, IF withFields THEN "search_read" ELSE "search") :
          Finish(IF withFields THEN "search_read_leads" ELSE "search_leads", tr,
                 [fields |-> fields, offset |-> offset, limit |-> limit, order |-> order],
                 search_leads(tr, Fresh, withFields, Domain, fields, offset, limit,
                              order, o[1], o[2]))

\* The inputs of the batch helpers, in iteration order: a list of lead_data
\* (create), the items of a dict keyed by lead id (update: distinct keys), a
\* list of lead ids (delete: any list).
BatchInputs(kind) ==
    CASE kind = "create" -> SeqsUpTo(LeadData, MaxBatch)
      [] kind = "update" -> {s \in SeqsUpTo(LeadIds, MaxBatch) : Injective(s)}
      [] OTHER -> SeqsUpTo(LeadIds, MaxBatch)

BatchMethod(kind) ==
    CASE kind = "create" -> "create" [] kind = "update" -> "write" [] OTHER -> "unlink"

\* The single-record operation a batch invokes for an item.
single(kind, tr, c, item, ar, er) ==
    CASE kind = "create" -> create_lead(tr, c, item, ar, er)
      [] kind = "update" -> update_lead(tr, c, item, "d1", ar, er)
      [] OTHER -> delete_lead(tr, c, item, ar, er)

\* *_leads_batch_*: entry, up to the loop.
BatchStart ==
    /\ pc = "idle"
    /\ \E tr \in Transports, kind \in {"create", "update", "delete"} :
       \E input \in BatchInputs(kind) :
          /\ items' = input
          /\ acc' = IF kind = "create" THEN PyList(<<>>) ELSE PyDict(<<>>)
          /\ op' = [name |-> "batch", kind |-> kind, tr |-> tr, ret |-> None, pre |-> Pre]
    /\ calls' = <<>>
    /\ sent' = <<>>
    /\ pc' = "batch"
    /\ UNCHANGED <<uid, xmlrpc_common, xmlrpc_models, session_id, granted>>
    /\ UNCHANGED chatVars
    /\ UNCHANGED demo

\* One iteration of the loop: the single-record operation, in full, and the
\* accumulation of what it returned.
BatchStep ==
    /\ pc = "batch"
    /\ ~loop_finished(items, calls)
    /\ LET item == items[next_item(items, calls)]
       IN  \E o \in Outcomes(op.tr, Client, BatchMethod(op.kind)) :
              LET r == single(op.kind, op.tr, Client, item, o[1], o[2])
              IN  /\ SetClient(r.c)
                  /\ calls' = Append(calls, [item |-> item, ret |-> r.ret])
                  /\ acc' = IF op.kind = "create" THEN create_accumulate(acc, r.ret)
                            ELSE results_assign(acc, item, r.ret)
    /\ UNCHANGED <<pc, op, items>>
    /\ UNCHANGED chatVars
    /\ UNCHANGED demo

\* After the loop: `return lead_ids` / `return results`.
BatchReturn ==
    /\ pc = "batch"
    /\ loop_finished(items, calls)
    /\ op' = [op EXCEPT !.ret = acc]
    /\ pc' = "done"
    /\ UNCHANGED <<uid, xmlrpc_common, xmlrpc_models, session_id, sent, calls, items, acc,
                   granted>>
    /\ UNCHANGED chatVars
    /\ UNCHANGED demo


---------------------------------------------------------------------------
(* The chatbot (src/chatbot.py).  One script run handles one user input;   *)
(* cpc is where the run is: "idle" (waiting for input), "extract" (the     *)
(* reply held the sentinel), "odoo" (the extraction parsed).               *)
(* A text is a sequence of tokens: the braces, a token "t" of other text,  *)
(* and the tokens "N" and "Z" for the JSON members "name": "Alice" and     *)
(* "name": null.                                                           *)

Sentinel == "[CREATE_LEAD]"

\* `"[CREATE_LEAD]" in bot_response`
HasSentinel(text) == \E i \in DOMAIN text : text[i] = Sentinel

Members == {"N", "Z"}
Alphabet == {"{", "}", "t"} \cup Members
Texts == SeqsUpTo(Alphabet, MaxText)

\* (a variant whose .* is not greedy: up to the first "}" after the "{")
re_search_lazy(text) ==
    LET opens == {i \in DOMAIN text :
                    text[i] = "{" /\ \E j \in DOMAIN text : j > i /\ text[j] = "}"}
    IN  IF opens = {} THEN None
        ELSE LET i == CHOOSE a \in opens : \A b \in opens : a <= b
                 j == CHOOSE a \in DOMAIN text :
                        a > i /\ text[a] = "}"
                        /\ \A b \in DOMAIN text : (b > i /\ text[b] = "}") => a <= b
             IN  [t |-> "match", group |-> SubSeq(text, i, j)]

\* re.search(r'\{.*\}', text, re.DOTALL): the leftmost "{" that has a "}"
\* after it, up to the last "}" of the text (.* is greedy); None if no match.
re_search(text) ==
    LET opens == {i \in DOMAIN text :
                    text[i] = "{" /\ \E j \in DOMAIN text : j > i /\ text[j] = "}"}
    IN  IF opens = {} THEN None
        ELSE LET i == CHOOSE a \in opens : \A b \in opens : a <= b
                 j == CHOOSE a \in DOMAIN text :
                        text[a] = "}" /\ \A b \in DOMAIN text : text[b] = "}" => b <= a
             IN  [t |-> "match", group |-> SubSeq(text, i, j)]

\* (a variant that reads anything unparsable as an empty object)
json_loads_lenient(m) ==
    LET n == Len(m)
        valid == n >= 2 /\ m[1] = "{" /\ m[n] = "}"
                 /\ \A k \in 2..(n - 1) : m[k] \in Members
    IN  [k |-> "return",
         v |-> IF ~valid \/ n = 2 THEN PyDict(<<>>)
               ELSE PyDict([key \in {"name"} |->
                              IF m[n - 1] = "N" THEN PyStr("Alice") ELSE None])]

\* json.loads of a matched substring: an object is "{", members, "}"; a later
\* member of the same key replaces an earlier one.  Anything else raises.
json_loads(m) ==
    LET n == Len(m)
        valid == n >= 2 /\ m[1] = "{" /\ m[n] = "}"
                 /\ \A k \in 2..(n - 1) : m[k] \in Members
    IN  IF ~valid THEN [k |-> "raise"]
        ELSE [k |-> "return",
              v |-> IF n = 2 THEN PyDict(<<>>)
                    ELSE PyDict([key \in {"name"} |->
                                   IF m[n - 1] = "N" THEN PyStr("Alice") ELSE None])]

\* dict.get(key, default)
Get(d, key, default) == IF key \in DOMAIN d.d THEN d.d[key] ELSE default

\* extracted.get('name', 'New Lead') + ' Lead': str + str, TypeError otherwise.
lead_name(extracted) ==
    LET n == Get(extracted, "name", PyStr("New Lead"))
    IN  IF n.t = "str" THEN [k |-> "return", v |-> [t |-> "str+", parts |-> <<n.s, " Lead">>]]
        ELSE [k |-> "raise"]

UserInputs == {"hi"}
\* What model.generate_content gives for the conversation: a reply, with or
\* without the sentinel, or an exception.
GenReplies ==
    {[k |-> "raise", msg |-> "quota"]}
    \cup {[k |-> "return", text |-> x] : x \in {<<"w">>, <<"w", Sentinel>>, <<Sentinel, "w">>}}
ExtractReplies ==
    {[k |-> "raise", msg |-> "quota"]} \cup {[k |-> "return", text |-> x] : x \in Texts}

Msg(role, content) == [role |-> role, content |-> content]
Ui(level, text, value) == [level |-> level, text |-> text, value |-> value]

InitialLeadInfo ==
    PyDict([k \in {"name", "email", "phone", "requirements"} |-> None])

\* (a variant that starts the transcript over at every turn)
append_turn_reset(msgs, user_input, bot_response) ==
    <<Msg("user", user_input), Msg("assistant", bot_response)>>

\* Lines 38 and 66: the two appends of a turn.
append_turn(msgs, user_input, bot_response) ==
    Append(Append(msgs, Msg("user", user_input)), Msg("assistant", bot_response))

\* Lines 37-71: the user message, the reply (or the caught error's text), and
\* the sentinel check.
UserTurn ==
    /\ cpc = "idle"
    /\ Len(messages) < 2 * MaxTurns
    /\ \E user_input \in UserInputs, g \in GenReplies :
          LET bot_response == IF g.k = "raise"
                              THEN <<"Error generating response: ", g.msg>>
                              ELSE g.text
          IN  /\ messages' = append_turn(messages, user_input, bot_response)
              /\ turn' = [bot_response |-> bot_response,
                          generated |-> g,
                          extract_response |-> None,
                          calls |-> <<[call |-> "generate"]>>,
                          ui |-> <<>>,
                          messages0 |-> messages',
                          lead_info0 |-> lead_info]
              /\ cpc' = IF HasSentinel(bot_response) THEN "extract" ELSE "idle"
    /\ UNCHANGED <<lead_info, creates>>
    /\ UNCHANGED apiVars
    /\ UNCHANGED <<granted, demo>>

\* Lines 72-93 and 113-116: the extraction request and the parse.
Extract ==
    /\ cpc = "extract"
    /\ \E x \in ExtractReplies :
          LET called == Append(turn.calls, [call |-> "extract"])
              m == IF x.k = "raise" THEN None ELSE re_search(x.text)
              j == IF m = None THEN [k |-> "raise"] ELSE json_loads(m.group)
          IN  IF x.k = "raise"
              THEN /\ turn' = [turn EXCEPT !.calls = called,
                                 !.extract_response = [t |-> "raised"],
                                 !.ui = Append(@, Ui("error", "Error extracting information", None))]
                   /\ cpc' = "idle"
                   /\ UNCHANGED lead_info
              ELSE IF m = None
              THEN /\ turn' = [turn EXCEPT !.calls = called,
                                 !.extract_response = PyList(x.text),
                                 !.ui = Append(@, Ui("error", "Failed to extract information.", None))]
                   /\ cpc' = "idle"
                   /\ UNCHANGED lead_info
              ELSE IF j.k = "raise"
              THEN /\ turn' = [turn EXCEPT !.calls = called,
                                 !.extract_response = PyList(x.text),
                                 !.ui = Append(@, Ui("error", "Error extracting information", None))]
                   /\ cpc' = "idle"
                   /\ UNCHANGED lead_info
              ELSE /\ turn' = [turn EXCEPT !.calls = called,
                                 !.extract_response = PyList(x.text)]
                   /\ lead_info' = j.v
                   /\ cpc' = "odoo"
    /\ UNCHANGED <<messages, creates>>
    /\ UNCHANGED apiVars
    /\ UNCHANGED <<granted, demo>>

\* The replies of the two XML-RPC calls of lines 97 and 101; the second is
\* drawn only when the call is made.
OdooOutcomes(extracted) ==
    UNION {{<<ar, cr>> :
              cr \in IF ar.k = "return" /\ Truthy(ar.v) /\ lead_name(extracted).k = "return"
                     THEN XmlReplies({PyInt(n) : n \in LeadIds}) ELSE {NoReply}} :
           ar \in XmlReplies(AuthValues)}

\* Lines 94-112: authenticate, then create.
Odoo ==
    /\ cpc = "odoo"
    /\ \E o \in OdooOutcomes(lead_info) :
          LET ar == o[1]
              cr == o[2]
              authed == Append(turn.calls, [call |-> "authenticate", reply |-> ar])
              name == lead_name(lead_info)
              connectError == Ui("error", "Error connecting to Odoo", None)
          IN  IF ar.k = "raise"
              THEN /\ turn' = [turn EXCEPT !.calls = authed, !.ui = Append(@, connectError)]
                   /\ UNCHANGED creates
              ELSE IF ~Truthy(ar.v)
              THEN /\ turn' = [turn EXCEPT !.calls = authed,
                                 !.ui = Append(@, Ui("error", "Odoo authentication failed. Please check credentials.", None))]
                   /\ UNCHANGED creates
              ELSE IF name.k = "raise"
              THEN /\ turn' = [turn EXCEPT !.calls = authed, !.ui = Append(@, connectError)]
                   /\ UNCHANGED creates
              ELSE LET created == Append(authed,
                                    [call |-> "create", uid |-> ar.v, reply |-> cr,
                                     name |-> name.v,
                                     contact_name |-> Get(lead_info, "name", None)])
                   IN  /\ creates' = creates + 1
                       /\ IF cr.k = "raise"
                          THEN turn' = [turn EXCEPT !.calls = created,
                                          !.ui = Append(@, connectError)]
                          ELSE turn' = [turn EXCEPT !.calls = created,
                                          !.ui = Append(@, Ui("success", "Lead created successfully in Odoo! Lead ID: ", cr.v))]
    /\ cpc' = "idle"
    /\ UNCHANGED <<messages, lead_info>>
    /\ UNCHANGED apiVars
    /\ UNCHANGED <<granted, demo>>

---------------------------------------------------------------------------
(* The demo program (demo_usage and the __main__ guard).  demo.stage is    *)
(* the call demo_usage is about to make; demo.ending is how demo_usage     *)
(* ended ("running" until it has); demo.exit is the exit status of the     *)
(* process, None while it runs.                                            *)

DemoStages == <<"xmlrpc_authenticate", "jsonrpc_authenticate",
                "create_lead_xmlrpc", "create_lead_jsonrpc",
                "read_lead_xmlrpc", "read_lead_jsonrpc",
                "update_lead_xmlrpc", "update_lead_jsonrpc",
                "search_leads_xmlrpc", "search_read_leads_jsonrpc",
                "create_leads_batch_xmlrpc", "update_leads_batch_xmlrpc",
                "delete_leads_batch_jsonrpc">>

DemoInit ==
    demo = [stage |-> 1, lead_id_xmlrpc |-> None, lead_id_jsonrpc |-> None,
            batch_lead_ids |-> PyList(<<>>), ending |-> "running", exit |-> None]

\* Whether demo_usage makes the call of stage n at all (lines 762, 770, 779,
\* 793, 857, 878).
StageRuns(n) ==
    CASE DemoStages[n] \in {"read_lead_xmlrpc", "update_lead_xmlrpc"} ->
            Truthy(demo.lead_id_xmlrpc)
      [] DemoStages[n] \in {"read_lead_jsonrpc", "update_lead_jsonrpc"} ->
            Truthy(demo.lead_id_jsonrpc)
      [] DemoStages[n] = "update_leads_batch_xmlrpc" -> Truthy(demo.batch_lead_ids)
      [] DemoStages[n] = "delete_leads_batch_jsonrpc" ->
            \/ Truthy(demo.lead_id_xmlrpc)
            \/ Truthy(demo.lead_id_jsonrpc)
            \/ Truthy(demo.batch_lead_ids)
      [] OTHER -> TRUE

\* The stages whose own lines use what the call returned in a way that can
\* raise: json.dumps of a record (766, 774, 789, 803), lead['id'] (826).
StageCanRaise(n) ==
    DemoStages[n] \in {"read_lead_xmlrpc", "read_lead_jsonrpc", "update_lead_xmlrpc",
                       "update_lead_jsonrpc", "search_read_leads_jsonrpc"}

\* What the calls that demo_usage keeps the value of can return.
StageValues(n) ==
    CASE DemoStages[n] \in {"create_lead_xmlrpc", "create_lead_jsonrpc"} ->
            {None} \cup {PyInt(i) : i \in LeadIds}
      [] DemoStages[n] = "create_leads_batch_xmlrpc" ->
            {PyList(<<>>), PyList(<<PyInt(1)>>)}
      [] OTHER -> {None}

\* One stage of demo_usage runs to its end (or is skipped).
DemoStep ==
    /\ demo.ending = "running"
    /\ demo.stage <= Len(DemoStages)
    /\ \E v \in StageValues(demo.stage) :
          demo' = [demo EXCEPT
                     !.stage = @ + 1,
                     !.lead_id_xmlrpc =
                        IF DemoStages[demo.stage] = "create_lead_xmlrpc" THEN v ELSE @,
                     !.lead_id_jsonrpc =
                        IF DemoStages[demo.stage] = "create_lead_jsonrpc" THEN v ELSE @,
                     !.batch_lead_ids =
                        IF DemoStages[demo.stage] = "create_leads_batch_xmlrpc" THEN v ELSE @]
    /\ UNCHANGED <<apiVars, chatVars, granted>>

\* The user interrupts the run (any stage), or a line of demo_usage raises.
DemoRaise ==
    /\ demo.ending = "running"
    /\ demo.stage <= Len(DemoStages)
    /\ \E e \in {"KeyboardInterrupt", "Exception"} :
          /\ e = "Exception" => StageRuns(demo.stage) /\ StageCanRaise(demo.stage)
          /\ demo' = [demo EXCEPT !.ending = e]
    /\ UNCHANGED <<apiVars, chatVars, granted>>

\* Line 886: demo_usage returns.
DemoReturn ==
    /\ demo.ending = "running"
    /\ demo.stage > Len(DemoStages)
    /\ demo' = [demo EXCEPT !.ending = "returned"]
    /\ UNCHANGED <<apiVars, chatVars, granted>>

\* (a variant whose handlers let the exception end the process)
main_guard_reraise(ending) ==
    IF ending = "returned" THEN PyInt(0) ELSE PyInt(1)

\* Lines 889-895: the exit status of the process.  Both handlers print a line
\* and fall off the end of the module, as the try body does when it returns.
main_guard(ending) ==
    CASE ending = "returned" -> PyInt(0)
      [] ending = "KeyboardInterrupt" -> PyInt(0)
      [] ending = "Exception" -> PyInt(0)

DemoExit ==
    /\ demo.ending /= "running"
    /\ demo.exit = None
    /\ demo' = [demo EXCEPT !.exit = main_guard(demo.ending)]
    /\ UNCHANGED <<apiVars, chatVars, granted>>

---------------------------------------------------------------------------
(* Specifications. *)

ApiInit ==
    /\ uid = NewClient.uid
    /\ xmlrpc_common = NewClient.xmlrpc_common
    /\ xmlrpc_models = NewClient.xmlrpc_models
    /\ session_id = NewClient.session_id
    /\ sent = NewClient.sent
    /\ pc = "idle"
    /\ op = [name |-> "none"]
    /\ calls = <<>>
    /\ items = <<>>
    /\ acc = None
    /\ granted = {}

ChatInit ==
    /\ messages = <<>>
    /\ lead_info = InitialLeadInfo
    /\ cpc = "idle"
    /\ turn = None
    /\ creates = 0

Init == ApiInit /\ ChatInit /\ DemoInit

\* The OdooAPI client under its callers.
Next ==
    \/ Authenticate
    \/ Execute
    \/ CreateLead
    \/ UpdateLead
    \/ DeleteLead
    \/ ReadLead
    \/ SearchLeads
    \/ BatchStart
    \/ BatchStep
    \/ BatchReturn
    \/ Return

Spec == Init /\ [][Next]_vars

\* The search operations of the client.
SearchNext ==
    \/ Authenticate
    \/ SearchLeads
    \/ Return

SearchSpec == Init /\ [][SearchNext]_vars

\* The chatbot under its user.
ChatNext ==
    \/ UserTurn
    \/ Extract
    \/ Odoo

ChatSpec == Init /\ [][ChatNext]_vars

\* The demo program under its user.
MainNext ==
    \/ DemoStep
    \/ DemoRaise
    \/ DemoReturn
    \/ DemoExit

MainSpec == Init /\ [][MainNext]_vars

---------------------------------------------------------------------------
(* Properties.  The notions they use are stated here on their own, apart   *)
(* from the operators that model the code.                                 *)

\* A remote identifier: a positive integer.
IsIdentifier(x) == x.t = "int" /\ x.v > 0

Range(s) == {s[i] : i \in DOMAIN s}

BatchDone(kinds) == pc = "done" /\ op.name = "batch" /\ op.kind \in kinds

\* An authenticate / login reply that grants a user id.
AuthReplyOk(reply) ==
    \/ reply.k = "return" /\ reply.v.t = "int" /\ reply.v.v > 0
    \/ reply.k = "http" /\ reply.status = 200 /\ "result" \in reply.keys
       /\ reply.result.t = "int" /\ reply.result.v > 0

\* An authenticate / login reply whose result is falsy (False, 0, null).
AuthReplyFalsy(reply) ==
    \/ reply.k = "return" /\ ~IsIdentifier(reply.v)
    \/ reply.k = "http" /\ reply.status = 200 /\ "result" \in reply.keys
       /\ ~IsIdentifier(reply.result)

IsAuthReq(q) == q.kind \in {"authenticate", "login"}
IsExecReq(q) == q.kind = "execute_kw"

\* C1: a batch create returns the identifiers of the items whose single
\* create returned an identifier, in input order, and nothing else: with n
\* inputs of which k succeed, a list of length k.
C1_BatchCreateKeepsSuccessesInOrder ==
    BatchDone({"create"}) =>
        LET ok == SelectSeq(calls, LAMBDA c : IsIdentifier(c.ret))
        IN  /\ Len(calls) = Len(items)
            /\ op.ret.t = "list"
            /\ Len(op.ret.items) = Len(ok)
            /\ \A i \in 1..Len(ok) : op.ret.items[i] = ok[i].ret

\* C1 witness: two inputs, the first create failed, the second succeeded.
C1_Witness ==
    /\ BatchDone({"create"})
    /\ Len(items) = 2
    /\ ~IsIdentifier(calls[1].ret)
    /\ IsIdentifier(calls[2].ret)
    /\ op.ret.items = <<calls[2].ret>>

\* C2 as stated: a batch update or delete with n inputs returns a mapping
\* with exactly n keys, also when the delete list repeats an identifier.
C2_Original_ExactlyNKeys ==
    BatchDone({"update", "delete"}) =>
        op.ret.t = "dict" /\ Cardinality(DOMAIN op.ret.d) = Len(items)

\* C2 amended: the mapping's keys are exactly the distinct input identifiers;
\* it has n keys when the n inputs are pairwise distinct (always so for
\* update, whose input is a mapping).
C2_KeysAreDistinctInputs ==
    BatchDone({"update", "delete"}) =>
        /\ op.ret.t = "dict"
        /\ DOMAIN op.ret.d = Range(items)
        /\ (op.kind = "update" \/ Injective(items)) =>
              Cardinality(DOMAIN op.ret.d) = Len(items)

\* C2 witness: a delete of the same identifier twice returns one key.
C2_Witness ==
    /\ BatchDone({"delete"})
    /\ Len(items) = 2
    /\ items[1] = items[2]
    /\ Cardinality(DOMAIN op.ret.d) = 1

\* C3 as stated: update_lead_* and delete_lead_* return a boolean in every
\* outcome, and every value of a batch update/delete mapping is a boolean.
C3_UpdateDeleteReturnBoolean ==
    /\ (pc = "done" /\ op.name \in {"update_lead", "delete_lead"}) => IsBool(op.ret)
    /\ BatchDone({"update", "delete"}) =>
          \A k \in DOMAIN op.ret.d : IsBool(op.ret.d[k])

\* C4: a batch invokes the single-record operation once per input item, in
\* input order: the i-th invocation is for the i-th input, whatever the
\* earlier invocations returned, and the batch returns only after the last.
C4_OneInvocationPerItemInOrder ==
    (pc \in {"batch", "done"} /\ op.name = "batch") =>
        /\ Len(calls) <= Len(items)
        /\ \A i \in 1..Len(calls) : calls[i].item = items[i]
        /\ pc = "done" => Len(calls) = Len(items)

\* C4 witness: the first of two items failed and the second was still
\* invoked before the batch returned.
C4_Witness ==
    /\ BatchDone({"create", "update", "delete"})
    /\ Len(items) = 2
    /\ Len(calls) = 2
    /\ ~Truthy(calls[1].ret)
    /\ calls[2].item = items[2]

\* C5 as stated: after an authenticate whose remote result is falsy, the
\* session's uid is unset, whatever the session held before.
C5_FalsyAuthLeavesUidUnset ==
    (pc = "done" /\ op.name = "authenticate" /\ AuthReplyFalsy(sent[1].reply)) =>
        ~Truthy(uid)

\* C10: an execute on a client with no user id authenticates first, on its
\* own transport; the execute_kw request is sent only after an authenticate
\* that succeeded, and after one that failed execute returns None and no
\* execute_kw request has been sent.
C10_ExecuteAuthenticatesFirst ==
    (pc = "done" /\ op.name \in {"execute", "create_lead", "update_lead", "delete_lead"}
       /\ ~Truthy(op.pre.uid)) =>
        /\ Len(sent) >= 1
        /\ IsAuthReq(sent[1])
        /\ sent[1].tr = op.tr
        /\ \A i \in DOMAIN sent : IsExecReq(sent[i]) => i = 2 /\ AuthReplyOk(sent[1].reply)
        /\ ~AuthReplyOk(sent[1].reply) => op.ret = None /\ Len(sent) = 1
        /\ AuthReplyOk(sent[1].reply) => Len(sent) = 2 /\ IsExecReq(sent[2])

\* C10 witness: an execute on a fresh client whose authentication failed.
C10_Witness ==
    /\ pc = "done"
    /\ op.name = "execute"
    /\ op.pre.uid = None
    /\ Len(sent) = 1
    /\ ~AuthReplyOk(sent[1].reply)
    /\ op.ret = None


\* The execute_kw requests of a search carry the options as the second
\* element of the arguments.
SearchDone == pc = "done" /\ op.name \in {"search_leads", "search_read_leads"}
OptionsOf(q) == q.args[2].d

\* C6 as stated: the options hold exactly the parameters the caller supplied
\* with a non-default value (offset /= 0, limit /= None, order /= None, and
\* for search-read fields /= None), each with its value verbatim.
C6_Original_NonDefaultOptionsOnly ==
    SearchDone =>
        \A i \in DOMAIN sent : IsExecReq(sent[i]) =>
            LET kw == OptionsOf(sent[i])
                a == op.arg
                supplied == (IF a.offset /= PyInt(0) THEN {"offset"} ELSE {})
                            \cup (IF a.limit /= None THEN {"limit"} ELSE {})
                            \cup (IF a.order /= None THEN {"order"} ELSE {})
                            \cup (IF op.name = "search_read_leads" /\ a.fields /= None
                                  THEN {"fields"} ELSE {})
            IN  /\ DOMAIN kw = supplied
                /\ \A k \in DOMAIN kw : kw[k] = a[k]

\* C6 amended: offset, limit and order are in the options exactly when the
\* caller's value is truthy (a non-zero number, a non-empty string), with the
\* value verbatim, so limit=0 and order="" are left out like the defaults;
\* search-read always sends fields: the caller's list, or [] when fields was
\* left unspecified; search never sends fields.
C6_TruthyOptionsOnly ==
    SearchDone =>
        \A i \in DOMAIN sent : IsExecReq(sent[i]) =>
            LET kw == OptionsOf(sent[i])
                a == op.arg
                nonzero(x) == x.t = "int" /\ x.v /= 0
                nonempty(x) == x.t = "str" /\ x.s /= ""
            IN  /\ "offset" \in DOMAIN kw <=> nonzero(a.offset)
                /\ "limit" \in DOMAIN kw <=> nonzero(a.limit)
                /\ "order" \in DOMAIN kw <=> nonempty(a.order)
                /\ "fields" \in DOMAIN kw <=> op.name = "search_read_leads"
                /\ \A k \in DOMAIN kw \ {"fields"} : kw[k] = a[k]
                /\ "fields" \in DOMAIN kw =>
                      kw["fields"] = IF a.fields = None THEN PyList(<<>>) ELSE a.fields

\* C6 witness: a search-read with limit=0, order="" and no fields sends
\* exactly {fields: []}.
C6_Witness ==
    /\ SearchDone
    /\ op.name = "search_read_leads"
    /\ op.arg.limit = PyInt(0)
    /\ op.arg.order = PyStr("")
    /\ op.arg.offset = PyInt(0)
    /\ op.arg.fields = None
    /\ \E i \in DOMAIN sent :
          /\ IsExecReq(sent[i])
          /\ DOMAIN OptionsOf(sent[i]) = {"fields"}
          /\ OptionsOf(sent[i])["fields"] = PyList(<<>>)

\* Whether a token sequence is a JSON object: braces around members only.
IsJsonObject(m) ==
    /\ Len(m) >= 2
    /\ m[1] = "{"
    /\ m[Len(m)] = "}"
    /\ \A k \in 2..(Len(m) - 1) : m[k] \in {"N", "Z"}

\* No "{" with a "}" somewhere after it.
NoBraceDelimited(text) ==
    ~\E i, j \in DOMAIN text : i < j /\ text[i] = "{" /\ text[j] = "}"

\* The run got an extraction response and its parse succeeded / failed.
Extracted == turn /= None /\ turn.extract_response.t = "list"
ParseSucceeded ==
    /\ Extracted
    /\ ~NoBraceDelimited(turn.extract_response.items)
    /\ IsJsonObject(re_search(turn.extract_response.items).group)
ParseFailed ==
    /\ Extracted
    /\ \/ NoBraceDelimited(turn.extract_response.items)
       \/ ~IsJsonObject(re_search(turn.extract_response.items).group)

CallNames == [i \in DOMAIN turn.calls |-> turn.calls[i].call]

\* C7 as stated: at most one lead-creation request in a session.
C7_AtMostOneCreate == creates <= 1

\* C8 as stated: a run whose reply holds the sentinel and whose extraction
\* parses makes one extraction call, then one authenticate call, then, when
\* authenticate returned a truthy uid, one create call, and no create call
\* when it returned a falsy uid.
C8_OneExtractOneAuthOneCreate ==
    (cpc = "idle" /\ ParseSucceeded) =>
        /\ Len(turn.calls) >= 3
        /\ SubSeq(CallNames, 1, 3) = <<"generate", "extract", "authenticate">>
        /\ AuthReplyOk(turn.calls[3].reply) =>
              CallNames = <<"generate", "extract", "authenticate", "create">>
        /\ AuthReplyFalsy(turn.calls[3].reply) => Len(turn.calls) = 3

\* C9: when the extraction response has no brace-delimited substring or the
\* matched substring is not a JSON object, the run ends there with one error
\* shown and no authenticate or create call; the transcript and lead_info
\* are as they were once the reply was appended, and the next user message
\* can be taken on the same transcript.
C9_ParseFailureStopsTheRun ==
    ParseFailed =>
        /\ cpc = "idle"
        /\ Len(turn.ui) = 1
        /\ turn.ui[1].level = "error"
        /\ CallNames = <<"generate", "extract">>
        /\ messages = turn.messages0
        /\ lead_info = turn.lead_info0
        /\ Len(messages) < 2 * MaxTurns => ENABLED UserTurn

\* C9 witness: in the second turn the matched substring is not JSON.
C9_Witness ==
    /\ ParseFailed
    /\ Len(messages) = 4
    /\ turn.extract_response.items = <<"{", "t", "}">>
    /\ turn.ui[1].text = "Error extracting information"

---------------------------------------------------------------------------
(* Properties of the requests and the returned values of the client.       *)

SingleOps == {"execute", "create_lead", "read_lead", "update_lead", "delete_lead",
              "search_leads", "search_read_leads"}

\* What the remote side delivered in answer to an execute_kw request: a
\* one-element sequence holding the result, or the empty sequence when the
\* call raised, the status was not 200 or the body had no 'result'.
Delivered(q) ==
    IF q.reply.k = "return" THEN <<q.reply.v>>
    ELSE IF q.reply.k = "http" /\ q.reply.status = 200 /\ "result" \in q.reply.keys
    THEN <<q.reply.result>>
    ELSE <<>>

\* A request that failed: no user id granted, no result delivered.
RequestFailed(q) ==
    IF IsAuthReq(q) THEN ~AuthReplyOk(q.reply) ELSE Delivered(q) = <<>>

FailureSentinel(name) ==
    IF name \in {"search_leads", "search_read_leads"} THEN PyList(<<>>) ELSE None

AuthCount == Cardinality({i \in DOMAIN sent : IsAuthReq(sent[i])})
ExecCount == Cardinality({i \in DOMAIN sent : IsExecReq(sent[i])})

\* C11: no operation of the client lets an exception reach its caller: every
\* call returns a value, and when a request of the call failed (it raised,
\* the status was not 200, the body was malformed, authentication failed) the
\* value is the failure sentinel: False for authenticate, None for execute,
\* create and read, the empty list for search, search-read and a batch
\* create all of whose requests failed.
C11_NoExceptionReachesTheCaller ==
    /\ pc = "done" => op.ret /= Exc
    /\ (pc = "done" /\ op.name = "authenticate" /\ RequestFailed(sent[1]))
          => op.ret = PyFalse
    /\ \A i \in DOMAIN calls : calls[i].ret /= Exc
    /\ (/\ pc = "done"
        /\ op.name \in {"execute", "create_lead", "read_lead",
                        "search_leads", "search_read_leads"}
        /\ \E i \in DOMAIN sent : RequestFailed(sent[i]))
          => op.ret = FailureSentinel(op.name)
    /\ (BatchDone({"create"}) /\ \A i \in DOMAIN sent : RequestFailed(sent[i]))
          => op.ret = PyList(<<>>)

\* C11 witness: a search whose execute_kw request raised returned [].
C11_Witness ==
    /\ pc = "done"
    /\ op.name = "search_leads"
    /\ Len(sent) = 2
    /\ sent[2].reply.k = "raise"
    /\ op.ret = PyList(<<>>)

\* C12: read returns the first record of the remote result when that is a
\* non-empty list, and None when it is empty or the execute failed.
C12_ReadReturnsFirstRecord ==
    (pc = "done" /\ op.name = "read_lead") =>
        LET got == IF sent /= <<>> /\ IsExecReq(sent[Len(sent)])
                   THEN Delivered(sent[Len(sent)]) ELSE <<>>
        IN  IF got /= <<>> /\ got[1].t = "list" /\ Len(got[1].items) > 0
            THEN op.ret = got[1].items[1]
            ELSE op.ret = None

\* C12 witness: the remote side delivered two records; read returned the
\* first.
C12_Witness ==
    /\ pc = "done"
    /\ op.name = "read_lead"
    /\ sent /= <<>>
    /\ Delivered(sent[Len(sent)]) = <<PyList(<<PyStr("rec2"), PyStr("rec1")>>)>>
    /\ op.ret = PyStr("rec2")

\* C14: in the execute_kw requests of read, search and search-read the
\* options mapping is not an element of the positional arguments.
C14_OptionsNotAmongPositionalArgs ==
    \A i \in DOMAIN sent :
        (IsExecReq(sent[i]) /\ sent[i].method \in {"read", "search", "search_read"}) =>
            \A j \in DOMAIN sent[i].args : sent[i].args[j].t /= "dict"

\* C15: jsonrpc_execute returns the 'result' of the response as it is when
\* the status is 200 and the body has a 'result', and None when the status is
\* not 200, the body has an 'error' or neither key, or the request raised.
C15_JsonRpcResultVerbatim ==
    (/\ pc = "done"
     /\ op.name = "execute"
     /\ op.tr = "jsonrpc"
     /\ sent /= <<>>
     /\ IsExecReq(sent[Len(sent)])) =>
        LET reply == sent[Len(sent)].reply
        IN  IF reply.k = "http" /\ reply.status = 200 /\ "result" \in reply.keys
            THEN op.ret = reply.result
            ELSE op.ret = None

\* C15 witness: a response with status 500 that has a 'result' gave None.
C15_Witness ==
    /\ pc = "done"
    /\ op.name = "execute"
    /\ op.tr = "jsonrpc"
    /\ sent /= <<>>
    /\ IsExecReq(sent[Len(sent)])
    /\ sent[Len(sent)].reply.k = "http"
    /\ sent[Len(sent)].reply.status = 500
    /\ sent[Len(sent)].reply.result = PyTrue
    /\ op.ret = None

\* C19: every execute_kw request sent carries a truthy user id, the one the
\* client holds from a successful authenticate on this instance.
C19_RequestsCarryGrantedUid ==
    \A i \in DOMAIN sent :
        IsExecReq(sent[i]) => Truthy(sent[i].uid) /\ sent[i].uid \in granted

\* C19 witness: an execute on a client authenticated by an earlier call sent
\* its request without authenticating again.
C19_Witness ==
    /\ pc = "done"
    /\ op.name = "execute"
    /\ Len(sent) = 1
    /\ IsExecReq(sent[1])
    /\ sent[1].uid = op.pre.uid

\* C20: nothing is retried.  A single operation sends at most one
\* authenticate and at most one execute_kw request; an authenticate sends
\* exactly one request; a batch sends at most one of each per item, and on an
\* unauthenticated client whose authentication fails every time, one
\* authenticate per item and no execute_kw.
C20_NothingIsRetried ==
    /\ (pc = "done" /\ op.name \in SingleOps) => AuthCount <= 1 /\ ExecCount <= 1
    /\ (pc = "done" /\ op.name = "authenticate") => AuthCount = 1 /\ ExecCount = 0
    /\ pc = "batch" \/ (pc = "done" /\ op.name = "batch") =>
          AuthCount <= Len(calls) /\ ExecCount <= Len(calls)
    /\ (/\ pc = "done"
        /\ op.name = "batch"
        /\ ~Truthy(op.pre.uid)
        /\ \A i \in DOMAIN sent : IsAuthReq(sent[i]) => ~AuthReplyOk(sent[i].reply))
          => AuthCount = Len(items) /\ ExecCount = 0

\* C20 witness: a batch of two items on a client whose authentication failed
\* both times.
C20_Witness ==
    /\ pc = "done"
    /\ op.name = "batch"
    /\ Len(items) = 2
    /\ ~Truthy(op.pre.uid)
    /\ AuthCount = 2
    /\ ExecCount = 0

---------------------------------------------------------------------------
(* Properties of the demo program and of the chatbot's turn.               *)

\* C13 as stated: the exit status is 0 when demo_usage returned and not 0
\* when it was interrupted or ended in an exception.
C13_Original_NonZeroOnInterruptOrError ==
    demo.exit /= None =>
        /\ demo.ending = "returned" => demo.exit = PyInt(0)
        /\ demo.ending \in {"KeyboardInterrupt", "Exception"} => demo.exit /= PyInt(0)

\* C13: the exit status is 0 however demo_usage ended: when it returned, when
\* it was interrupted (KeyboardInterrupt) and when it raised an Exception; the
\* last two are caught at the top level and reported.
C13_ExitStatusZeroAlsoWhenCaught ==
    demo.exit /= None =>
        /\ demo.ending \in {"returned", "KeyboardInterrupt", "Exception"}
        /\ demo.exit = PyInt(0)

\* C13 witness: the run was interrupted after both single creates and the
\* process ended with status 0.
C13_Witness ==
    /\ demo.ending = "KeyboardInterrupt"
    /\ demo.stage > 4
    /\ demo.exit = PyInt(0)

\* The brace-delimited substrings of a text: from its first "{" to the first
\* "}" after that, and from its first "{" to its last "}".
FirstOpen(text) ==
    CHOOSE i \in DOMAIN text : text[i] = "{" /\ \A k \in 1..(i - 1) : text[k] /= "{"
FirstObject(text) ==
    LET i == FirstOpen(text)
        j == CHOOSE a \in DOMAIN text :
               a > i /\ text[a] = "}" /\ \A k \in (i + 1)..(a - 1) : text[k] /= "}"
    IN  SubSeq(text, i, j)
FirstToLast(text) ==
    LET i == FirstOpen(text)
        j == CHOOSE a \in DOMAIN text :
               text[a] = "}" /\ \A k \in (a + 1)..Len(text) : text[k] /= "}"
    IN  SubSeq(text, i, j)

\* The value of a JSON object.
ObjectValue(m) ==
    IF Len(m) = 2 THEN PyDict(<<>>)
    ELSE PyDict([key \in {"name"} |-> IF m[Len(m) - 1] = "N" THEN PyStr("Alice") ELSE None])

ExtractionError ==
    /\ cpc = "idle"
    /\ Len(turn.ui) = 1
    /\ turn.ui[1] = Ui("error", "Error extracting information", None)
    /\ lead_info = turn.lead_info0

\* C16 as stated: when the text holds a JSON object as its first
\* brace-delimited substring, whatever follows it, the parsed structure is
\* that object.
C16_Original_FirstObjectParsed ==
    (/\ Extracted
     /\ ~NoBraceDelimited(turn.extract_response.items)
     /\ IsJsonObject(FirstObject(turn.extract_response.items))) =>
        lead_info = ObjectValue(FirstObject(turn.extract_response.items))

\* C16: the extraction parses the substring from the first "{" to the LAST
\* "}" of the text.  When that substring is a JSON object (one object, with
\* brace-free text around it) the parsed structure is that object; when a
\* "}" follows the first object (a second object, a stray brace) it is not,
\* and the run ends with the extraction error and lead_info as it was.
C16_ParsesFirstOpenToLastClose ==
    (Extracted /\ ~NoBraceDelimited(turn.extract_response.items)) =>
        LET text == turn.extract_response.items
        IN  /\ IsJsonObject(FirstToLast(text)) => lead_info = ObjectValue(FirstToLast(text))
            /\ (IsJsonObject(FirstObject(text)) /\ FirstObject(text) /= FirstToLast(text))
                  => ExtractionError

\* C16 witness: an object followed by a closing brace; the parse failed.
C16_Witness ==
    /\ Extracted
    /\ turn.extract_response.items = <<"{", "}", "}">>
    /\ ExtractionError

\* C17: a user turn appends exactly two entries to the transcript, the user
\* message and then one assistant reply, and leaves the earlier entries as
\* they were; when generation raised, the reply is the error text and the
\* turn is over.  No other step of a run touches the transcript.
C17_TurnAppendsUserThenReply ==
    [][/\ (cpc = "idle" /\ turn' /= turn) =>
             LET n == Len(messages)
             IN  /\ Len(messages') = n + 2
                 /\ SubSeq(messages', 1, n) = messages
                 /\ messages'[n + 1].role = "user"
                 /\ messages'[n + 2].role = "assistant"
                 /\ messages'[n + 2].content = turn'.bot_response
                 /\ turn'.generated.k = "raise" =>
                       /\ messages'[n + 2].content =
                             <<"Error generating response: ", turn'.generated.msg>>
                       /\ cpc' = "idle"
       /\ cpc /= "idle" => messages' = messages]_vars

\* C17 witness: the second turn's generation raised; the transcript has four
\* entries, the last one the error text.
C17_Witness ==
    /\ cpc = "idle"
    /\ turn /= None
    /\ turn.generated.k = "raise"
    /\ Len(messages) = 4
    /\ messages[3].role = "user"
    /\ messages[4] = Msg("assistant", <<"Error generating response: ", "quota">>)

\* C18 as stated: after a successful parse the run shows one message: the
\* success message, with the identifier, exactly when create returned; the
\* authentication-failure message exactly when authenticate returned a falsy
\* uid; the connection-error message exactly when authenticate or create
\* raised.
C18_EachOutcomeItsOwnMessage ==
    (cpc = "idle" /\ ParseSucceeded) =>
        LET auth == turn.calls[3].reply
            created == Len(turn.calls) = 4
            shown == turn.ui[Len(turn.ui)].text
        IN  /\ Len(turn.ui) = 1
            /\ shown = "Lead created successfully in Odoo! Lead ID: "
                  <=> (created /\ turn.calls[4].reply.k = "return")
            /\ shown = "Lead created successfully in Odoo! Lead ID: "
                  => turn.ui[1].value = turn.calls[4].reply.v
            /\ shown = "Odoo authentication failed. Please check credentials."
                  <=> AuthReplyFalsy(auth)
            /\ shown = "Error connecting to Odoo"
                  <=> (auth.k = "raise" \/ (created /\ turn.calls[4].reply.k = "raise"))

====
